---- MODULE Spec2Model ----
(***************************************************************************)
(* A model of FileSystemHelper (src/src/FileSystemHelper.ts): the          *)
(* directory listing with filtering and bounded recursion (readDir,        *)
(* readDirSync), the abortable watches (watchDir, watchFile) and the       *)
(* subprocess execution (execute).                                         *)
(*                                                                         *)
(* Strings are sequences of one-character strings, so that endsWith, join  *)
(* and split are computed and not assumed.                                 *)
(***************************************************************************)
EXTENDS Integers, Sequences, FiniteSets, TLC

(***************************************************************************)
(* Bounds of the model.                                                    *)
(***************************************************************************)
\* the nesting of directories below the listed directory
MaxDepth == 2
\* the largest recursiveLevels option
MaxLevels == 2
\* the change notifications the OS delivers to one watch
MaxEvents == 3
\* the calls of one future's abort action
MaxAborts == 2
\* the characters a child process writes to its standard output
MaxOut == 4

VARIABLES
    tree,         \* the filesystem below the listed directory (what fs.readdir answers)
    options,      \* the options record handed to readDir / readDirSync
    promise,      \* the future returned by readDir
    unhandled,    \* the rejection of the async readdir callback nobody handles
    syncResult,   \* the completion of readDirSync: a return or a throw
    \* watchDir
    watcher,      \* the local variable watcher: "none" (undefined), "open" or "closed"
    handles,      \* the OS watch handles fs.watch has registered
    dirPromise,   \* the future returned by watchDir
    dirAborts,    \* the completions of the calls of its abort action
    notified,     \* the (event, filename) notifications delivered so far
    notifiedAtAbort, \* how many had been delivered at the first abort (-1: no abort yet)
    \* watchFile
    statListeners, \* the listeners registered on the path's stat watcher
    filePromise,  \* the future returned by watchFile
    fileAbort,    \* the future returned by its abort action: "none", "pending", "resolved"
    mtime,        \* the modification time the last poll saw
    \* execute
    child,        \* the child process: "none", "running", "spawnfailed", "errored", "ended"
    spawnResult,  \* how spawn went: "none", "started", "throws", "errorEvent"
    output,       \* everything the child writes to its standard output
    delivered,    \* how much of it has been delivered as data chunks
    chunks,       \* the data chunks delivered, in order
    stdout,       \* the array stdout of execute
    exitCode,     \* the exit status of the child
    uncaught,     \* an 'error' event was emitted with no listener
    execPromise   \* the future returned by execute

readDirVars == <<tree, options, promise, unhandled, syncResult>>
watchDirVars == <<watcher, handles, dirPromise, dirAborts, notified, notifiedAtAbort>>
watchFileVars == <<statListeners, filePromise, fileAbort, mtime>>
execVars == <<child, spawnResult, output, delivered, chunks, stdout, exitCode, uncaught, execPromise>>
vars == <<readDirVars, watchDirVars, watchFileVars, execVars>>

(***************************************************************************)
(* Strings.                                                                *)
(***************************************************************************)
Sep == "/"
Dot == "."

\* String.prototype.endsWith
EndsWith(s, suffix) ==
    /\ Len(s) >= Len(suffix)
    /\ SubSeq(s, Len(s) - Len(suffix) + 1, Len(s)) = suffix

\* path.join of two segments: joined by the separator, "." segments normalised away
join(a, b) ==
    IF a = <<Dot>> THEN b
    ELSE IF b = <<Dot>> THEN a
    ELSE a \o <<Sep>> \o b

\* the segments of a path: split at the separator, "." segments dropped
RECURSIVE Segments(_, _)
Segments(p, cur) ==
    IF p = <<>> THEN (IF cur = <<>> \/ cur = <<Dot>> THEN <<>> ELSE <<cur>>)
    ELSE IF Head(p) = Sep
         THEN (IF cur = <<>> \/ cur = <<Dot>> THEN <<>> ELSE <<cur>>) \o Segments(Tail(p), <<>>)
         ELSE Segments(Tail(p), Append(cur, Head(p)))

(***************************************************************************)
(* The filesystem: a listing is an OS error or a sequence of entries; a    *)
(* directory entry carries the listing of that directory.                  *)
(***************************************************************************)
ATxt == <<"a", ".", "t", "x", "t">>
BMd == <<"b", ".", "m", "d">>
CTxt == <<"c", ".", "t", "x", "t">>
LMd == <<"l", ".", "m", "d">>
Sub == <<"s", "u", "b">>
DTxt == <<"d", ".", "t", "x", "t">>
ExtTxt == <<"t", "x", "t">>
ExtMd == <<"m", "d">>

FileNames == {ATxt, BMd}
DirNames == {Sub}
Errors == {"EACCES"}

NoListing == [err |-> "none", entries |-> <<>>]

FileEntries == {[name |-> n, kind |-> "file", sub |-> NoListing] : n \in FileNames}

\* what a generated directory holds: nothing, one entry, or two entries of distinct names
DistinctSeqs(E) ==
    {<<>>} \cup {<<e>> : e \in E} \cup {<<p[1], p[2]>> : p \in {q \in E \X E : q[1].name # q[2].name}}

RECURSIVE Listings(_)
Listings(d) ==
    LET dirs == IF d = 0 THEN {}
                ELSE {[name |-> n, kind |-> "dir", sub |-> l] : n \in DirNames, l \in Listings(d - 1)}
    IN {[err |-> e, entries |-> <<>>] : e \in Errors}
       \cup {[err |-> "none", entries |-> s] : s \in DistinctSeqs(FileEntries \cup dirs)}

File(n) == [name |-> n, kind |-> "file", sub |-> NoListing]
Dir(n, entries) == [name |-> n, kind |-> "dir", sub |-> [err |-> "none", entries |-> entries]]

\* a.txt, b.md and sub/ holding c.txt
ExampleTree == [err |-> "none", entries |-> <<File(ATxt), File(BMd), Dir(Sub, <<File(CTxt)>>)>>]
\* an entry that is neither a file nor a directory (a symbolic link), between two directories
OtherTree ==
    [err |-> "none",
     entries |-> <<Dir(Sub, <<File(BMd)>>), [name |-> LMd, kind |-> "other", sub |-> NoListing],
                   Dir(DTxt, <<File(ATxt), Dir(Sub, <<File(CTxt)>>)>>)>>]

Trees == Listings(MaxDepth) \cup {ExampleTree, OtherTree}

\* the listing of the directory at the given segments below l
RECURSIVE Lookup(_, _)
Lookup(l, segs) ==
    IF segs = <<>> THEN l
    ELSE IF l.err # "none" THEN l
    ELSE LET hit == {i \in 1..Len(l.entries) :
                        l.entries[i].name = Head(segs) /\ l.entries[i].kind = "dir"}
         IN IF hit = {} THEN [err |-> "ENOENT", entries |-> <<>>]
            ELSE Lookup(l.entries[CHOOSE i \in hit : TRUE].sub, Tail(segs))

\* this.rootPath is not set: resolvePath returns the path as given
resolvePath(dirPath) == dirPath

Dirent(e) == [name |-> e.name, kind |-> e.kind]

\* fs.readdir / fs.readdirSync with withFileTypes: the error, or fresh Dirent objects
Readdir(path) ==
    LET l == Lookup(tree, Segments(path, <<>>))
    IN [err |-> l.err, files |-> [i \in 1..Len(l.entries) |-> Dirent(l.entries[i])]]

(***************************************************************************)
(* The options record. An absent option is present = FALSE.                *)
(***************************************************************************)
Absent == [present |-> FALSE, value |-> 0]
Given(v) == [present |-> TRUE, value |-> v]
AbsentExt == [present |-> FALSE, value |-> <<>>]

\* JavaScript truthiness of the recursiveLevels option: undefined and 0 are falsy
Truthy(levels) == levels.present /\ levels.value # 0

ExtensionChoices == {AbsentExt, Given(<<ExtTxt>>), Given(<<ExtMd, ExtTxt>>)}
LevelChoices == {Absent} \cup {Given(n) : n \in 0..MaxLevels}

OptionsChoices ==
    [acceptExtensions : ExtensionChoices, recursiveLevels : LevelChoices,
     onlyFiles : BOOLEAN, onlyDirs : BOOLEAN]

\* a bug ChildOptions could have: the level is not decremented
ChildOptionsSameLevel(opts) ==
    [acceptExtensions |-> opts.acceptExtensions,
     recursiveLevels |-> opts.recursiveLevels,
     onlyFiles |-> FALSE, onlyDirs |-> FALSE]

\* the options of the recursive call: the same extensions, one level less, nothing else
ChildOptions(opts) ==
    [acceptExtensions |-> opts.acceptExtensions,
     recursiveLevels |-> Given(opts.recursiveLevels.value - 1),
     onlyFiles |-> FALSE, onlyDirs |-> FALSE]

(***************************************************************************)
(* The steps shared by readDir and readDirSync.                            *)
(***************************************************************************)
isFile(f) == f.kind = "file"
isDirectory(f) == f.kind = "dir"

\* a bug the predicate could have: directories are filtered by extension too
AcceptedWithoutExemption(file, exts) ==
    \E i \in 1..Len(exts) : EndsWith(file.name, <<Dot>> \o exts[i])

\* the predicate of the extension filter
AcceptedByExtension(file, exts) ==
    \/ ~isFile(file)
    \/ \E i \in 1..Len(exts) : EndsWith(file.name, <<Dot>> \o exts[i])

ExtensionFilter(files, opts) ==
    IF opts.acceptExtensions.present
    THEN SelectSeq(files, LAMBDA f : AcceptedByExtension(f, opts.acceptExtensions.value))
    ELSE files

\* a bug Rename could have: the children keep their own names
RenameUnprefixed(parent, children) == children

\* childFile.name = join(file.name, childFile.name), for every child
Rename(parent, children) ==
    [i \in 1..Len(children) |-> [children[i] EXCEPT !.name = join(parent, children[i].name)]]

KindFilter(files, opts) ==
    LET a == IF opts.onlyFiles THEN SelectSeq(files, isFile) ELSE files
    IN IF opts.onlyDirs THEN SelectSeq(a, isDirectory) ELSE a

(***************************************************************************)
(* readDirSync: returns the entries or throws the OS error.                *)
(***************************************************************************)
Return(files) == [kind |-> "return", files |-> files, err |-> "none"]
Throw(e) == [kind |-> "throw", files |-> <<>>, err |-> e]
NotCalled == [kind |-> "none", files |-> <<>>, err |-> "none"]

RECURSIVE readDirSync(_, _)
RECURSIVE LoopSync(_, _, _, _, _)

\* the for loop of readDirSync from entry i on, foundFiles being what it has pushed
LoopSync(dirPath, acceptedFiles, opts, i, foundFiles) ==
    IF i > Len(acceptedFiles) THEN Return(foundFiles)
    ELSE LET file == acceptedFiles[i] IN
         IF isDirectory(file)
         THEN LET childrenFiles == readDirSync(join(dirPath, file.name), ChildOptions(opts))
              IN IF childrenFiles.kind = "throw" THEN childrenFiles
                 ELSE LoopSync(dirPath, acceptedFiles, opts, i + 1,
                               foundFiles \o Rename(file.name, childrenFiles.files))
         ELSE LoopSync(dirPath, acceptedFiles, opts, i + 1, Append(foundFiles, file))

readDirSync(dirPath, opts) ==
    LET listed == Readdir(resolvePath(dirPath)) IN
    IF listed.err # "none" THEN Throw(listed.err)
    ELSE LET acceptedFiles == ExtensionFilter(listed.files, opts)
             expanded == IF Truthy(opts.recursiveLevels)
                         THEN LoopSync(dirPath, acceptedFiles, opts, 1, <<>>)
                         ELSE Return(acceptedFiles)
         IN IF expanded.kind = "throw" THEN expanded
            ELSE Return(KindFilter(expanded.files, opts))

(***************************************************************************)
(* readDir: the future it returns, once every callback that can run has    *)
(* run. The fs.readdir callback is an async function: what it throws       *)
(* rejects the callback's own promise, not the future readDir returned.    *)
(***************************************************************************)
Pending == [state |-> "pending", files |-> <<>>, err |-> "none", unhandled |-> "none"]
Resolved(files) == [state |-> "resolved", files |-> files, err |-> "none", unhandled |-> "none"]
Rejected(e) == [state |-> "rejected", files |-> <<>>, err |-> e, unhandled |-> "none"]
\* the callback threw e (or waits for ever): resolve and reject are never called
Stuck(e) == [state |-> "pending", files |-> <<>>, err |-> "none", unhandled |-> e]

RECURSIVE readDir(_, _)
RECURSIVE LoopAsync(_, _, _, _, _)

\* the for loop of the readdir callback from entry i on
LoopAsync(dirPath, acceptedFiles, opts, i, foundFiles) ==
    IF i > Len(acceptedFiles) THEN Resolved(foundFiles)
    ELSE LET file == acceptedFiles[i] IN
         IF isDirectory(file)
         THEN LET childrenFiles == readDir(join(dirPath, file.name), ChildOptions(opts))
              IN CASE childrenFiles.state = "rejected" -> Stuck(childrenFiles.err)
                   [] childrenFiles.state = "pending" -> Stuck(childrenFiles.unhandled)
                   [] OTHER -> LoopAsync(dirPath, acceptedFiles, opts, i + 1,
                                         foundFiles \o Rename(file.name, childrenFiles.files))
         ELSE LoopAsync(dirPath, acceptedFiles, opts, i + 1, Append(foundFiles, file))

readDir(dirPath, opts) ==
    LET listed == Readdir(resolvePath(dirPath)) IN
    IF listed.err # "none" THEN Rejected(listed.err)
    ELSE LET acceptedFiles == ExtensionFilter(listed.files, opts)
             expanded == IF Truthy(opts.recursiveLevels)
                         THEN LoopAsync(dirPath, acceptedFiles, opts, 1, <<>>)
                         ELSE Resolved(acceptedFiles)
         IN IF expanded.state # "resolved" THEN expanded
            ELSE Resolved(KindFilter(expanded.files, opts))

(***************************************************************************)
(* Futures. resolve and reject settle a pending future and do nothing to a *)
(* settled one.                                                            *)
(***************************************************************************)
IdleFuture == [state |-> "idle", value |-> <<>>]
PendingFuture == [state |-> "pending", value |-> <<>>]

\* a bug Resolve could have: a later call replaces the value
ResolveAgain(p, v) ==
    IF p.state \in {"pending", "resolved"} THEN [state |-> "resolved", value |-> v] ELSE p

Resolve(p, v) == IF p.state = "pending" THEN [state |-> "resolved", value |-> v] ELSE p
Reject(p, e) == IF p.state = "pending" THEN [state |-> "rejected", value |-> e] ELSE p

(***************************************************************************)
(* The listing as a state machine.                                         *)
(***************************************************************************)
Idle == [state |-> "idle", files |-> <<>>, err |-> "none", unhandled |-> "none"]

ReadDirIdle ==
    /\ tree = NoListing
    /\ options = [acceptExtensions |-> AbsentExt, recursiveLevels |-> Absent,
                  onlyFiles |-> FALSE, onlyDirs |-> FALSE]
    /\ promise = Idle
    /\ unhandled = "none"
    /\ syncResult = NotCalled

WatchIdle ==
    /\ watcher = "none"
    /\ handles = 0
    /\ dirPromise = IdleFuture
    /\ dirAborts = <<>>
    /\ notified = <<>>
    /\ notifiedAtAbort = -1
    /\ statListeners = {}
    /\ filePromise = IdleFuture
    /\ fileAbort = "none"
    /\ mtime = 0

ExecIdle ==
    /\ child = "none"
    /\ spawnResult = "none"
    /\ output = <<>>
    /\ delivered = 0
    /\ chunks = <<>>
    /\ stdout = <<>>
    /\ exitCode = 0
    /\ uncaught = FALSE
    /\ execPromise = IdleFuture

InitReadDir ==
    /\ tree \in Trees
    /\ options \in OptionsChoices
    /\ promise = Idle
    /\ unhandled = "none"
    /\ syncResult = NotCalled
    /\ WatchIdle
    /\ ExecIdle

\* readDir('.', options) is called: fs.readdir is issued and the future returned
ReadDirCall ==
    /\ promise.state = "idle"
    /\ promise' = Pending
    /\ UNCHANGED <<tree, options, unhandled, syncResult, watchDirVars, watchFileVars, execVars>>

\* the callback of fs.readdir runs, with every listing it awaits
ReadDirCallback ==
    /\ promise.state = "pending"
    /\ unhandled = "none"
    /\ LET r == readDir(<<Dot>>, options)
       IN /\ promise' = [r EXCEPT !.unhandled = "none"]
          /\ unhandled' = IF r.state = "pending" THEN r.unhandled ELSE "done"
    /\ UNCHANGED <<tree, options, syncResult, watchDirVars, watchFileVars, execVars>>

\* readDirSync('.', options)
ReadDirSyncCall ==
    /\ syncResult.kind = "none"
    /\ syncResult' = readDirSync(<<Dot>>, options)
    /\ UNCHANGED <<tree, options, promise, unhandled, watchDirVars, watchFileVars, execVars>>

NextReadDir == ReadDirCall \/ ReadDirCallback \/ ReadDirSyncCall

SpecReadDir == InitReadDir /\ [][NextReadDir]_vars

(***************************************************************************)
(* watchDir.                                                               *)
(***************************************************************************)
EventKinds == {"rename", "change"}
WatchedNames == {ATxt, BMd}

\* a bug Close could have: the handle is left open
CloseNothing(w) == w

\* watcher.close(), guarded by if (watcher)
Close(w) == IF w # "none" THEN "closed" ELSE w

\* watchDir(dirPath): the executor calls fs.watch, which registers a handle or throws
WatchDirCall ==
    /\ dirPromise.state = "idle"
    /\ \E registered \in BOOLEAN :
         IF registered
         THEN /\ watcher' = "open"
              /\ handles' = handles + 1
              /\ dirPromise' = PendingFuture
         ELSE /\ watcher' = watcher
              /\ handles' = handles
              /\ dirPromise' = Reject(PendingFuture, "ENOENT")
    /\ UNCHANGED <<dirAborts, notified, notifiedAtAbort, readDirVars, watchFileVars, execVars>>

\* the OS notifies a change: the listener calls resolve({ event, filename })
DirChange ==
    /\ watcher = "open"
    /\ Len(notified) < MaxEvents
    /\ \E event \in EventKinds, filename \in WatchedNames :
         /\ notified' = Append(notified, [event |-> event, filename |-> filename])
         /\ dirPromise' = Resolve(dirPromise, [event |-> event, filename |-> filename])
    /\ UNCHANGED <<watcher, handles, dirAborts, notifiedAtAbort, readDirVars, watchFileVars, execVars>>

\* promise.abort(): closes the watcher if there is one; the async function completes
DirAbort ==
    /\ dirPromise.state # "idle"
    /\ Len(dirAborts) < MaxAborts
    /\ watcher' = Close(watcher)
    /\ dirAborts' = Append(dirAborts, "resolved")
    /\ notifiedAtAbort' = IF notifiedAtAbort = -1 THEN Len(notified) ELSE notifiedAtAbort
    /\ UNCHANGED <<handles, dirPromise, notified, readDirVars, watchFileVars, execVars>>

(***************************************************************************)
(* watchFile. A listener is a function object: "onChange" is the one       *)
(* watchFile hands to fs.watchFile, "onUnwatch" the one abort hands to     *)
(* fs.unwatchFile.                                                         *)
(***************************************************************************)
\* fs.unwatchFile(filename, listener): removes that listener, and only that one
UnwatchFile(listeners, listener) == listeners \ {listener}

\* watchFile(filePath): registers the listener that resolves the future
WatchFileCall ==
    /\ filePromise.state = "idle"
    /\ statListeners' = statListeners \cup {"onChange"}
    /\ filePromise' = PendingFuture
    /\ UNCHANGED <<fileAbort, mtime, readDirVars, watchDirVars, execVars>>

\* a poll sees the file changed: every registered listener is called with (curr, prev)
FileChange ==
    /\ statListeners # {}
    /\ mtime < MaxEvents
    /\ mtime' = mtime + 1
    /\ filePromise' = IF "onChange" \in statListeners
                      THEN Resolve(filePromise, [curr |-> mtime + 1, prev |-> mtime])
                      ELSE filePromise
    /\ fileAbort' = IF "onUnwatch" \in statListeners /\ fileAbort = "pending"
                    THEN "resolved" ELSE fileAbort
    /\ UNCHANGED <<statListeners, readDirVars, watchDirVars, execVars>>

\* promise.abort(): fs.unwatchFile with a new listener, which would resolve the future it returns
FileAbort ==
    /\ filePromise.state # "idle"
    /\ fileAbort = "none"
    /\ statListeners' = UnwatchFile(statListeners, "onUnwatch")
    /\ fileAbort' = "pending"
    /\ UNCHANGED <<filePromise, mtime, readDirVars, watchDirVars, execVars>>

InitWatch ==
    /\ ReadDirIdle
    /\ WatchIdle
    /\ ExecIdle

NextWatch ==
    \/ WatchDirCall
    \/ DirChange
    \/ DirAbort
    \/ WatchFileCall
    \/ FileChange
    \/ FileAbort

SpecWatch == InitWatch /\ [][NextWatch]_vars

(***************************************************************************)
(* execute.                                                                *)
(***************************************************************************)
Newline == "\n"
OutChars == {"a", "b", Newline}
Texts == UNION {[1..n -> OutChars] : n \in 0..MaxOut}
ExitCodes == {0, 1}

\* String.prototype.split at the newline
RECURSIVE SplitFrom(_, _)
SplitFrom(text, cur) ==
    IF text = <<>> THEN <<cur>>
    ELSE IF Head(text) = Newline THEN <<cur>> \o SplitFrom(Tail(text), <<>>)
    ELSE SplitFrom(Tail(text), Append(cur, Head(text)))

Split(text) == SplitFrom(text, <<>>)

\* the 'data' handler: the chunk's non-empty lines are pushed to stdout
OnData(lines, buffer) == lines \o SelectSeq(Split(buffer), LAMBDA line : line # <<>>)

\* execute(command, args): spawn starts the child, throws, or returns a child that
\* will emit 'error'; the handlers are set on child.stdout
Execute ==
    /\ execPromise.state = "idle"
    /\ \E how \in {"started", "throws", "errorEvent"}, text \in Texts, code \in ExitCodes :
         /\ spawnResult' = how
         /\ CASE how = "started" ->
                   /\ child' = "running"
                   /\ output' = text
                   /\ exitCode' = code
                   /\ execPromise' = PendingFuture
              [] how = "throws" ->
                   /\ child' = "none"
                   /\ output' = <<>>
                   /\ exitCode' = 0
                   /\ execPromise' = Reject(PendingFuture, "spawn")
              [] OTHER ->
                   /\ child' = "spawnfailed"
                   /\ output' = <<>>
                   /\ exitCode' = 0
                   /\ execPromise' = PendingFuture
    /\ UNCHANGED <<delivered, chunks, stdout, uncaught, readDirVars, watchDirVars, watchFileVars>>

\* child.stdout emits 'data' with the next chunk of the output
Data ==
    /\ child = "running"
    /\ \E k \in 1..(Len(output) - delivered) :
         LET buffer == SubSeq(output, delivered + 1, delivered + k)
         IN /\ stdout' = OnData(stdout, buffer)
            /\ chunks' = Append(chunks, buffer)
            /\ delivered' = delivered + k
    /\ UNCHANGED <<child, spawnResult, output, exitCode, uncaught, execPromise,
                   readDirVars, watchDirVars, watchFileVars>>

\* child.stdout emits 'end': resolve(stdout). The exit status is not looked at.
End ==
    /\ child \in {"running", "errored"}
    /\ delivered = Len(output)
    /\ child' = "ended"
    /\ execPromise' = Resolve(execPromise, stdout)
    /\ UNCHANGED <<spawnResult, output, delivered, chunks, stdout, exitCode, uncaught,
                   readDirVars, watchDirVars, watchFileVars>>

\* the child that could not be spawned emits 'error': execute set no listener for it
ChildError ==
    /\ child = "spawnfailed"
    /\ child' = "errored"
    /\ uncaught' = TRUE
    /\ UNCHANGED <<spawnResult, output, delivered, chunks, stdout, exitCode, execPromise,
                   readDirVars, watchDirVars, watchFileVars>>

InitExec ==
    /\ ReadDirIdle
    /\ WatchIdle
    /\ ExecIdle

NextExec == Execute \/ Data \/ End \/ ChildError

SpecExec == InitExec /\ [][NextExec]_vars

(***************************************************************************)
(* What the claims are stated with: the listed tree seen as sets of paths, *)
(* computed from the tree and not by the listing.                          *)
(***************************************************************************)
\* the levels of recursion the options ask for
Levels(opts) == IF opts.recursiveLevels.present THEN opts.recursiveLevels.value ELSE 0

\* the entries of a listing, none if it fails
EntriesOf(l) == IF l.err = "none" THEN l.entries ELSE <<>>

Prefixed(prefix, name) == IF prefix = <<>> THEN name ELSE prefix \o <<Sep>> \o name

\* the non-directory entries a listing with n levels of recursion reaches
RECURSIVE LeavesWithin(_, _, _)
LeavesWithin(l, prefix, n) ==
    {[name |-> Prefixed(prefix, EntriesOf(l)[i].name), kind |-> EntriesOf(l)[i].kind,
      base |-> EntriesOf(l)[i].name] :
        i \in {j \in 1..Len(EntriesOf(l)) : EntriesOf(l)[j].kind # "dir"}}
    \cup (IF n = 0 THEN {}
          ELSE UNION {LeavesWithin(EntriesOf(l)[i].sub, Prefixed(prefix, EntriesOf(l)[i].name), n - 1) :
                        i \in {j \in 1..Len(EntriesOf(l)) : EntriesOf(l)[j].kind = "dir"}})

\* the directories at level n + 1: those a listing with n levels reaches and does not list
RECURSIVE DirsAtFrontier(_, _, _)
DirsAtFrontier(l, prefix, n) ==
    LET dirs == {j \in 1..Len(EntriesOf(l)) : EntriesOf(l)[j].kind = "dir"}
    IN IF n = 0
       THEN {[name |-> Prefixed(prefix, EntriesOf(l)[i].name), kind |-> "dir"] : i \in dirs}
       ELSE UNION {DirsAtFrontier(EntriesOf(l)[i].sub, Prefixed(prefix, EntriesOf(l)[i].name), n - 1) :
                     i \in dirs}

\* a listing with n levels of recursion lists a directory the OS fails on
RECURSIVE FailsWithin(_, _)
FailsWithin(l, n) ==
    \/ l.err # "none"
    \/ /\ n > 0
       /\ \E i \in 1..Len(l.entries) :
            l.entries[i].kind = "dir" /\ FailsWithin(l.entries[i].sub, n - 1)

Range(s) == {s[i] : i \in 1..Len(s)}
\* how many levels below the listed directory an entry of the result lies
Level(name) == Len(Segments(name, <<>>))
HasSuffix(name, exts) == \E i \in 1..Len(exts) : EndsWith(name, <<Dot>> \o exts[i])

\* the results delivered so far: by readDirSync, by readDir
Delivered ==
    (IF syncResult.kind = "return" THEN {syncResult.files} ELSE {})
    \cup (IF promise.state = "resolved" THEN {promise.files} ELSE {})

BothDelivered == syncResult.kind = "return" /\ promise.state = "resolved"

(***************************************************************************)
(* C1: with recursiveLevels = n > 0, the result is the extension-filtered  *)
(* immediate children with every directory replaced, at its position, by   *)
(* the entries of listing it with n - 1 levels and the same extensions,    *)
(* each renamed join(directory, child); the other entries keep name and    *)
(* position; onlyFiles / onlyDirs filter the flattened list once.          *)
(***************************************************************************)
C1_ChildListing(file) ==
    readDirSync(join(<<Dot>>, file.name),
                [acceptExtensions |-> options.acceptExtensions,
                 recursiveLevels |-> Given(options.recursiveLevels.value - 1),
                 onlyFiles |-> FALSE, onlyDirs |-> FALSE]).files

RECURSIVE C1_Spliced(_, _)
C1_Spliced(children, i) ==
    IF i > Len(children) THEN <<>>
    ELSE (IF children[i].kind = "dir"
          THEN [k \in 1..Len(C1_ChildListing(children[i])) |->
                   [name |-> children[i].name \o <<Sep>> \o C1_ChildListing(children[i])[k].name,
                    kind |-> C1_ChildListing(children[i])[k].kind]]
          ELSE <<children[i]>>)
         \o C1_Spliced(children, i + 1)

C1_Expected ==
    SelectSeq(C1_Spliced(ExtensionFilter(Readdir(<<Dot>>).files, options), 1),
              LAMBDA f : (options.onlyFiles => f.kind = "file") /\ (options.onlyDirs => f.kind = "dir"))

\* C1: whenever recursiveLevels is truthy, every delivered result (readDirSync's, readDir's)
\* equals the filtered children with each directory spliced out for its renamed listing
C1_SplicedInPlace ==
    Truthy(options.recursiveLevels) => \A files \in Delivered : files = C1_Expected

\* both listings delivered a directory's renamed children ahead of a later non-directory entry
C1_Witness ==
    /\ Truthy(options.recursiveLevels)
    /\ BothDelivered
    /\ \E i, j \in 1..Len(tree.entries) :
         /\ i < j
         /\ tree.entries[i].kind = "dir"
         /\ tree.entries[i].sub.entries # <<>>
         /\ tree.entries[j].kind # "dir"
         /\ Len(syncResult.files) >= 2
         /\ syncResult.files[Len(syncResult.files)].name = tree.entries[j].name
         /\ Level(syncResult.files[1].name) = 2

(***************************************************************************)
(* C2: with acceptExtensions set, a file is kept iff its name ends with    *)
(* '.' + e for some accepted e, at every level of the recursion, and the   *)
(* directories pass the filter; a.txt, b.md and sub/c.txt listed with      *)
(* ['txt'] and one level give exactly a.txt and sub/c.txt.                 *)
(***************************************************************************)
C2_OptionsExample ==
    [acceptExtensions |-> Given(<<ExtTxt>>), recursiveLevels |-> Given(1),
     onlyFiles |-> FALSE, onlyDirs |-> FALSE]

\* C2: with acceptExtensions set, the files of every delivered result are exactly the reachable
\* files with an accepted suffix, the frontier directories all pass, and the example holds
C2_ExtensionFilter ==
    options.acceptExtensions.present =>
      \A files \in Delivered :
        /\ {f \in Range(files) : f.kind = "file"} =
             (IF options.onlyDirs THEN {}
              ELSE {[name |-> x.name, kind |-> x.kind] :
                      x \in {y \in LeavesWithin(tree, <<>>, Levels(options)) :
                               y.kind = "file" /\ HasSuffix(y.base, options.acceptExtensions.value)}})
        /\ ~options.onlyFiles =>
             {f \in Range(files) : f.kind = "dir"} = DirsAtFrontier(tree, <<>>, Levels(options))
        /\ (tree = ExampleTree /\ options = C2_OptionsExample) =>
             files = <<[name |-> ATxt, kind |-> "file"], [name |-> Sub \o <<Sep>> \o CTxt, kind |-> "file"]>>

\* the example of the claim has been listed both ways
C2_Witness ==
    /\ tree = ExampleTree
    /\ options = C2_OptionsExample
    /\ BothDelivered

(***************************************************************************)
(* C3: if the OS listing fails for any directory visited, the root or a    *)
(* descendant, the operation fails with that error: readDirSync raises and *)
(* the future of readDir is rejected, never left pending.                  *)
(***************************************************************************)
\* C3: a failing directory within reach makes readDirSync throw and readDir's future rejected
C3_FailureAbortsTheListing ==
    FailsWithin(tree, Levels(options)) =>
      /\ syncResult.kind # "none" => (syncResult.kind = "throw" /\ syncResult.err \in Errors)
      /\ unhandled # "none" => (promise.state = "rejected" /\ promise.err \in Errors)

(***************************************************************************)
(* C8: readDir and readDirSync have the same outcome: the same sequence of *)
(* entries, or the same OS error.                                          *)
(***************************************************************************)
\* C8: once both have completed, readDir and readDirSync delivered the same entries or error
C8_SameOutcome ==
    (syncResult.kind # "none" /\ unhandled # "none") =>
      \/ syncResult.kind = "return" /\ promise.state = "resolved" /\ promise.files = syncResult.files
      \/ syncResult.kind = "throw" /\ promise.state = "rejected" /\ promise.err = syncResult.err

(***************************************************************************)
(* C9: with recursiveLevels = n >= 0 no entry of the result lies deeper    *)
(* than n + 1 levels; the directories at level n + 1 appear, unexpanded,   *)
(* unless onlyFiles is requested, and then no directory appears; what lies *)
(* deeper is left out without an error.                                    *)
(***************************************************************************)
\* C9: no delivered entry is deeper than n + 1; directories only at level n + 1, all of them
\* unless onlyFiles, none with onlyFiles
C9_DepthBounded ==
    \A files \in Delivered :
      /\ \A f \in Range(files) :
           /\ Level(f.name) <= Levels(options) + 1
           /\ f.kind = "dir" => (Level(f.name) = Levels(options) + 1 /\ ~options.onlyFiles)
      /\ ~options.onlyFiles =>
           DirsAtFrontier(tree, <<>>, Levels(options)) \subseteq Range(files)

\* one level was asked for, a file lies at level 3, and the result holds its directory at level 2
C9_Witness ==
    /\ options.recursiveLevels = Given(1)
    /\ BothDelivered
    /\ LeavesWithin(tree, <<>>, 2) # LeavesWithin(tree, <<>>, 1)
    /\ \E f \in Range(syncResult.files) : f.kind = "dir" /\ Level(f.name) = 2

(***************************************************************************)
(* C4: the future of a registered watchDir is resolved at most once, with  *)
(* the (event, filename) of the first change notified, which no later      *)
(* notification changes; an abort before any change completes without      *)
(* error and closes the watcher, and the future stays pending.             *)
(***************************************************************************)
\* C4: a registered watch is resolved iff a change was notified, with the first one; aborted
\* before any change it is closed, the aborts completed, and the future is pending
C4_FirstChangeOnly ==
    handles > 0 =>
      /\ dirPromise.state \in {"pending", "resolved"}
      /\ dirPromise.state = "resolved" <=> notified # <<>>
      /\ dirPromise.state = "resolved" => dirPromise.value = notified[1]
      /\ notifiedAtAbort = 0 =>
           /\ \A i \in 1..Len(dirAborts) : dirAborts[i] = "resolved"
           /\ watcher = "closed"
           /\ dirPromise.state = "pending"

\* the future is resolved, a different change was notified later, and abort was called after
C4_Witness ==
    /\ dirPromise.state = "resolved"
    /\ Len(notified) >= 2
    /\ notified[2] # notified[1]
    /\ notifiedAtAbort >= 2

\* abort was called, twice, before any change
C4_WitnessAbortFirst ==
    /\ handles > 0
    /\ notifiedAtAbort = 0
    /\ Len(dirAborts) = MaxAborts

(***************************************************************************)
(* C5: the abort action of a watchFile future unregisters the listener     *)
(* that watchFile registered for the path.                                 *)
(***************************************************************************)
\* C5: once abort was called, the listener watchFile registered is no longer registered
C5_AbortUnregisters ==
    fileAbort # "none" => "onChange" \notin statListeners

(***************************************************************************)
(* C6: once the output stream has ended, the future of execute holds the   *)
(* non-empty lines of the whole output, however it was cut into chunks.    *)
(***************************************************************************)
C6_NonEmptyLines(text) == SelectSeq(Split(text), LAMBDA line : line # <<>>)

\* C6: the resolved value is the non-empty lines of the whole output
C6_LinesOfWholeOutput ==
    (spawnResult = "started" /\ execPromise.state = "resolved") =>
      execPromise.value = C6_NonEmptyLines(output)

(***************************************************************************)
(* C7: if the process cannot be started the future of execute is rejected  *)
(* with the spawn error; a child that exits with a non-zero status         *)
(* resolves it with the collected lines when the output ends.              *)
(***************************************************************************)
\* C7: a spawn failure rejects the future; a non-zero exit resolves it with the lines
C7_SpawnFailureRejects ==
    /\ (spawnResult \in {"throws", "errorEvent"} /\ child # "spawnfailed") =>
         execPromise.state = "rejected"
    /\ (spawnResult = "started" /\ exitCode # 0 /\ child = "ended") =>
         (execPromise.state = "resolved" /\ execPromise.value = stdout)

(***************************************************************************)
(* C10: a successful watchDir registers exactly one OS watch handle, open  *)
(* from registration until abort is called, also once the future has       *)
(* resolved; after abort it is closed and notifies nothing more.           *)
(***************************************************************************)
\* C10: one handle per registered watch, open until the first abort, closed and silent after
C10_HandleOpenUntilAbort ==
    /\ handles <= 1
    /\ dirPromise.state \in {"pending", "resolved"} => handles = 1
    /\ dirPromise.state = "rejected" => (handles = 0 /\ watcher = "none")
    /\ (handles = 1 /\ dirAborts = <<>>) => watcher = "open"
    /\ (handles = 1 /\ dirAborts # <<>>) =>
         (watcher = "closed" /\ Len(notified) = notifiedAtAbort)

\* the future resolved on the first of several changes and the handle is still open
C10_Witness ==
    /\ dirPromise.state = "resolved"
    /\ Len(notified) = MaxEvents
    /\ dirAborts = <<>>
    /\ watcher = "open"

====
